---- MODULE Spec2Model ----
(***************************************************************************)
(* The offline mutation queue and the reconciliation engine of the desktop *)
(* client: the document commands (commands/documents.rs), the queue        *)
(* commands (commands/sync.rs) and the sync cycle (sync/engine.rs).        *)
(*                                                                         *)
(* Granularity: one step per SQL statement or network call.  Every cycle   *)
(* runs as its own task (the timer loop of engine.rs `start`, and one task *)
(* per trigger_sync / retry_failed_operations spawn), so steps of          *)
(* different cycles and of the document commands interleave freely.  SQL   *)
(* statements themselves are assumed to succeed (a store that cannot be    *)
(* written is the fatal class of errors), except where a specification     *)
(* says otherwise: SpecCheckpoint lets the application of a pulled change  *)
(* fail.                                                                   *)
(***************************************************************************)
EXTENDS Integers, Sequences, FiniteSets, TLC

\* ---------------------------------------------------------------- bounds
\* rows the offline_operations table may hold in the model
MaxOps == 3
\* local_version values explored (update_document stops at this version)
MaxVersion == 2
\* changes one /sync/changes response may carry
MaxChanges == 1
\* sync cycles that may run at the same time (slot 1 is the timer loop)
NumCycles == 2
\* the same, in the runs that follow a burst of on-demand cycles
RetryCycles == 6
\* rows a store may hold when it is opened, in the runs that start from one
MaxLegacy == 1
\* rows of the longest queue, in the runs about the size of a batch
MaxQueue == 22
\* the last second of the clock, in the runs that follow the time
MaxNow == 3

\* ---------------------------------------------------- program constants
\* retry_count < 5 in the batch query
MaxRetries == 5
\* LIMIT 20 in the batch query
BatchLimit == 20
\* LIMIT 50 in get_pending_operations
PendingListLimit == 50

\* ------------------------------------------------------------ value sets
NULL == "NULL"
\* identifiers create_document may draw (Uuid::new_v4)
LocalIds == {"d1"}
\* identifiers of documents that originate on the remote service
RemoteIds == {"r1"}
DocIds == LocalIds \cup RemoteIds
\* object references the remote service hands out
Keys == {"k1", "k2"}
\* the filename create_document is given, and the one update_document sets
CreateNames == {"a.txt"}
UpdateNames == {"b.txt"}
\* the task slots: the timer loop and the spawned on-demand cycles
Cycles == 1..(IF NumCycles > RetryCycles THEN NumCycles ELSE RetryCycles)
TimerCycle == 1
RaceCycles == 1..NumCycles
BurstCycles == 1..RetryCycles

\* error texts (anyhow messages) recorded in error_msg
ErrMissingDocId == "Missing doc_id"
ErrNotFound == "Document not found in local DB"
ErrNoLocalPath == "Document has no local_path"
ErrNetwork == "error sending request"
ErrStatus == "HTTP status client error"
ErrStore == "database error"

VARIABLES
    documents,           \* documents table: DocIds -> row
    offline_operations,  \* offline_operations table, in created_at order
    local_identity,      \* the singleton row of local_identity
    token,               \* whether the keyring holds an OAuth token
    now,                 \* datetime('now')
    cycle,               \* the running sync cycles: Cycles -> task state
    command,             \* a document command between its two writes
    remote_known,        \* local documents the remote service has applied
    everDone,            \* history: operations whose status has been 'done'
    returned,            \* the value the last retry_failed_operations returned,
                         \* or DocumentNotFound after a delete_document
                         \* that returned that error
    failedSince,         \* history: the `since` of a pull that failed applying
    remote_log,          \* the changes the remote service has recorded
    pulled               \* history: how often each recorded change was applied

vars == <<documents, offline_operations, local_identity, token, now, cycle,
          command, remote_known, everDone, returned, failedSince, remote_log, pulled>>

\* ------------------------------------------------------------------ rows
\* a document id with no row in the documents table
NoRow ==
    [row |-> FALSE, status |-> NULL, is_synced |-> FALSE, needs_upload |-> FALSE,
     needs_download |-> FALSE, object_key |-> NULL, local_path |-> NULL,
     filename |-> NULL, local_version |-> 0, last_synced_at |-> 0]

\* INSERT INTO documents (...) VALUES (..., 'local', 1); the other columns
\* take the schema defaults
create_document_row(filename) ==
    [row |-> TRUE, status |-> "local", is_synced |-> FALSE, needs_upload |-> TRUE,
     needs_download |-> FALSE, object_key |-> NULL, local_path |-> "path",
     filename |-> filename, local_version |-> 1, last_synced_at |-> 0]

\* INSERT INTO offline_operations (id, user_id, op_type, payload); status,
\* retry_count and error_msg take the schema defaults
offline_operation_row(op_type, doc_id) ==
    [op_type |-> op_type, doc_id |-> doc_id, status |-> "pending",
     retry_count |-> 0, error_msg |-> NULL]

IdleCycle ==
    [pc |-> "idle", batch |-> <<>>, at |-> 0, result |-> NULL, key |-> NULL,
     accepted |-> TRUE, since |-> 0, changes |-> <<>>]

\* a task whose cycle has returned: `result` is what run_sync_cycle returned
Ended(outcome) == [IdleCycle EXCEPT !.result = outcome]

NoCommand == [name |-> "none", id |-> NULL]

OpIds == 1..Len(offline_operations)

\* ------------------------------------------------------------------ Init
\* a fresh store after run_migrations, the user logged in
Init ==
    /\ documents = [d \in DocIds |-> NoRow]
    /\ offline_operations = <<>>
    /\ local_identity = [row |-> TRUE, last_sync_at |-> 0]
    /\ token = TRUE
    /\ now = 1
    /\ cycle = [c \in Cycles |-> IdleCycle]
    /\ command = NoCommand
    /\ remote_known = {}
    /\ everDone = {}
    /\ returned = 0
    /\ failedSince = -1
    /\ remote_log = {}
    /\ pulled = <<>>

\* ------------------------------------------------------ document commands
\* create_document, first write: the documents row
create_document_insert ==
    /\ command = NoCommand
    /\ Len(offline_operations) < MaxOps
    /\ \E id \in LocalIds, filename \in CreateNames :
        /\ ~documents[id].row
        /\ documents' = [documents EXCEPT ![id] = create_document_row(filename)]
        /\ command' = [name |-> "create_document", id |-> id]
    /\ UNCHANGED <<offline_operations, local_identity, token, now, cycle,
                   remote_known, everDone, returned, failedSince, remote_log, pulled>>

\* create_document, second write: the queued upload_document operation
create_document_queue ==
    /\ command.name = "create_document"
    /\ offline_operations' =
        Append(offline_operations, offline_operation_row("upload_document", command.id))
    /\ command' = NoCommand
    /\ UNCHANGED <<documents, local_identity, token, now, cycle, remote_known,
                   everDone, returned, failedSince, remote_log, pulled>>

\* mutant: the UPDATE without its local_version = local_version + 1
update_document_row_unversioned(doc, name) ==
    [doc EXCEPT !.filename = name,
                !.needs_upload = TRUE,
                !.is_synced = FALSE,
                !.status = "local"]

\* mutant: the UPDATE without its is_synced = 0
update_document_row_keeps_synced(doc, name) ==
    [doc EXCEPT !.filename = name,
                !.local_version = doc.local_version + 1,
                !.needs_upload = TRUE,
                !.status = "local"]

\* the UPDATE of update_document
update_document_row(doc, name) ==
    [doc EXCEPT !.filename = name,
                !.local_version = doc.local_version + 1,
                !.needs_upload = TRUE,
                !.is_synced = FALSE,
                !.status = "local"]

\* update_document(id, Some(name)): one UPDATE ... WHERE id, no queue write
update_document ==
    /\ \E id \in DocIds, name \in UpdateNames :
        /\ documents[id].row
        /\ documents[id].local_version < MaxVersion
        /\ documents' = [documents EXCEPT ![id] = update_document_row(documents[id], name)]
    /\ UNCHANGED <<offline_operations, local_identity, token, now, cycle,
                   command, remote_known, everDone, returned, failedSince, remote_log, pulled>>

\* delete_document, the row lookup and the first write: the tombstone
delete_document_mark ==
    /\ command = NoCommand
    /\ Len(offline_operations) < MaxOps
    /\ \E id \in DocIds :
        /\ documents[id].row
        /\ documents' = [documents EXCEPT ![id].status = "deleted"]
        /\ command' = [name |-> "delete_document", id |-> id]
    /\ UNCHANGED <<offline_operations, local_identity, token, now, cycle,
                   remote_known, everDone, returned, failedSince, remote_log, pulled>>

\* delete_document, second write: the queued delete_document operation
delete_document_queue ==
    /\ command.name = "delete_document"
    /\ offline_operations' =
        Append(offline_operations, offline_operation_row("delete_document", command.id))
    /\ command' = NoCommand
    /\ UNCHANGED <<documents, local_identity, token, now, cycle, remote_known,
                   everDone, returned, failedSince, remote_log, pulled>>

\* Err("Document {id} not found"), as a value of `returned` that is no count
DocumentNotFound == -1

\* mutant: delete_document without the row lookup: the UPDATE matches no
\* row and the operation is queued all the same
delete_document_not_found_queues ==
    /\ command = NoCommand
    /\ Len(offline_operations) < MaxOps
    /\ \E id \in DocIds :
        /\ ~documents[id].row
        /\ offline_operations' =
              Append(offline_operations, offline_operation_row("delete_document", id))
    /\ UNCHANGED <<documents, local_identity, token, now, cycle, command, remote_known,
                   everDone, returned, failedSince, remote_log, pulled>>

\* delete_document for an id the SELECT finds no row for: the command
\* returns the error before its two writes
delete_document_not_found ==
    /\ command = NoCommand
    /\ \E id \in DocIds : ~documents[id].row
    /\ returned' = DocumentNotFound
    /\ UNCHANGED <<documents, offline_operations, local_identity, token, now, cycle,
                   command, remote_known, everDone, failedSince, remote_log, pulled>>

\* ------------------------------------------------------------ sync cycle
SetCycle(c, rec) == cycle' = [cycle EXCEPT ![c] = rec]

Min(a, b) == IF a < b THEN a ELSE b

RECURSIVE SeqToSet(_)
SeqToSet(q) == IF q = <<>> THEN {} ELSE {Head(q)} \cup SeqToSet(Tail(q))

\* the sequence q, last element first
Reverse(q) == [k \in 1..Len(q) |-> q[Len(q) + 1 - k]]

\* mutant: the batch query with ORDER BY created_at DESC
SelectBatch_newest_first(ops) ==
    LET ids == [i \in 1..Len(ops) |-> i]
        hit(i) == ops[i].status = "pending" /\ ops[i].retry_count < MaxRetries
        sel == Reverse(SelectSeq(ids, hit))
    IN  SubSeq(sel, 1, Min(BatchLimit, Len(sel)))

\* mutant: the batch query without its LIMIT
SelectBatch_no_limit(ops) ==
    LET ids == [i \in 1..Len(ops) |-> i]
        hit(i) == ops[i].status = "pending" /\ ops[i].retry_count < MaxRetries
    IN  SelectSeq(ids, hit)

\* mutant: the batch query also takes 'failed' operations below the cap
SelectBatch_with_failed(ops) ==
    LET ids == [i \in 1..Len(ops) |-> i]
        hit(i) == ops[i].status \in {"pending", "failed"} /\ ops[i].retry_count < MaxRetries
        sel == SelectSeq(ids, hit)
    IN  SubSeq(sel, 1, Min(BatchLimit, Len(sel)))

\* SELECT id, op_type, payload FROM offline_operations
\* WHERE status = 'pending' AND retry_count < 5 ORDER BY created_at ASC LIMIT 20
SelectBatch(ops) ==
    LET ids == [i \in 1..Len(ops) |-> i]
        hit(i) == ops[i].status = "pending" /\ ops[i].retry_count < MaxRetries
        sel == SelectSeq(ids, hit)
    IN  SubSeq(sel, 1, Min(BatchLimit, Len(sel)))

\* the operation a cycle is executing
CurrentOp(c) == cycle[c].batch[cycle[c].at]

\* mutant: a cycle without token goes on to the probe
run_sync_cycle_ignores_token(c) ==
    /\ cycle[c].pc = "idle"
    /\ SetCycle(c, [IdleCycle EXCEPT !.pc = "probe"])
    /\ UNCHANGED <<documents, offline_operations, local_identity, token, now,
                   command, remote_known, everDone, returned, failedSince, remote_log, pulled>>

\* run_sync_cycle up to the probe: the token lookup (None => return Ok(()))
\* and the server_url read
run_sync_cycle(c) ==
    /\ cycle[c].pc = "idle"
    /\ SetCycle(c, IF token THEN [IdleCycle EXCEPT !.pc = "probe"] ELSE Ended("Ok"))
    /\ UNCHANGED <<documents, offline_operations, local_identity, token, now,
                   command, remote_known, everDone, returned, failedSince, remote_log, pulled>>

\* mutant: the loop written as `run_sync_cycle(&app).await?`, which ends
\* with the first cycle that returns an error
start_until_error ==
    /\ cycle[TimerCycle].result \in {NULL, "Ok"}
    /\ run_sync_cycle(TimerCycle)

\* the timer loop of the engine: loop { run_sync_cycle; sleep }, the
\* cycle's error only logged
start == run_sync_cycle(TimerCycle)

\* the task slot a spawn takes: the first free one
FreeSlot(slots) ==
    {c \in slots : cycle[c].pc = "idle" /\ \A b \in slots : b < c => cycle[b].pc # "idle"}

\* trigger_sync: spawn a task that runs one cycle
trigger_sync(slots) == \E c \in FreeSlot(slots) : run_sync_cycle(c)

\* mutant: an unreachable server is reported as the cycle's error
health_probe_fails(c) ==
    /\ cycle[c].pc = "probe"
    /\ \E reachable \in BOOLEAN :
        SetCycle(c, IF reachable THEN [cycle[c] EXCEPT !.pc = "select"] ELSE Ended(ErrNetwork))
    /\ UNCHANGED <<documents, offline_operations, local_identity, token, now,
                   command, remote_known, everDone, returned, failedSince, remote_log, pulled>>

\* GET /api/v1/health: only a send error counts as unreachable
health_probe(c) ==
    /\ cycle[c].pc = "probe"
    /\ \E reachable \in BOOLEAN :
        SetCycle(c, IF reachable THEN [cycle[c] EXCEPT !.pc = "select"] ELSE Ended("Ok"))
    /\ UNCHANGED <<documents, offline_operations, local_identity, token, now,
                   command, remote_known, everDone, returned, failedSince, remote_log, pulled>>

\* mutant: a failed operation ends the invocation (`?` on the result)
AfterRecord_abort(cy) ==
    IF cy.result # "Ok"
    THEN [pc |-> "idle", batch |-> <<>>, at |-> 0, result |-> NULL, key |-> NULL,
          accepted |-> TRUE, since |-> 0, changes |-> <<>>]
    ELSE IF cy.at < Len(cy.batch)
    THEN [cy EXCEPT !.pc = "exec", !.at = cy.at + 1, !.result = NULL, !.key = NULL]
    ELSE [cy EXCEPT !.pc = "pull_since", !.at = cy.at + 1, !.result = NULL, !.key = NULL]

\* mutant: the loop over the batch left after its first operation
AfterRecord_first_only(cy) ==
    [cy EXCEPT !.pc = "pull_since", !.at = cy.at + 1, !.result = NULL, !.key = NULL]

\* where a cycle goes once the outcome of operation number `at` is recorded
AfterRecord(cy) ==
    IF cy.at < Len(cy.batch)
    THEN [cy EXCEPT !.pc = "exec", !.at = cy.at + 1, !.result = NULL, !.key = NULL]
    ELSE [cy EXCEPT !.pc = "pull_since", !.at = cy.at + 1, !.result = NULL, !.key = NULL]

\* process_pending_ops: the snapshot of the pending operations
process_pending_ops_select(c) ==
    /\ cycle[c].pc = "select"
    /\ LET batch == SelectBatch(offline_operations)
       IN  SetCycle(c, IF batch = <<>>
                       THEN [cycle[c] EXCEPT !.pc = "pull_since"]
                       ELSE [cycle[c] EXCEPT !.pc = "exec", !.batch = batch, !.at = 1])
    /\ UNCHANGED <<documents, offline_operations, local_identity, token, now,
                   command, remote_known, everDone, returned, failedSince, remote_log, pulled>>

\* mutant: the upload-url request sent before the local_path is looked at
upload_document_read_unchecked(c) ==
    /\ cycle[c].pc = "exec"
    /\ offline_operations[CurrentOp(c)].op_type = "upload_document"
    /\ LET doc_id == offline_operations[CurrentOp(c)].doc_id
           err == IF doc_id = NULL THEN ErrMissingDocId
                  ELSE IF ~documents[doc_id].row THEN ErrNotFound
                  ELSE NULL
       IN  SetCycle(c, IF err = NULL
                       THEN [cycle[c] EXCEPT !.pc = "upload_url"]
                       ELSE [cycle[c] EXCEPT !.pc = "record", !.result = err])
    /\ UNCHANGED <<documents, offline_operations, local_identity, token, now,
                   command, remote_known, everDone, returned, failedSince, remote_log, pulled>>

\* upload_document up to the first request: the payload's doc_id, the
\* documents row and its local_path
upload_document_read(c) ==
    /\ cycle[c].pc = "exec"
    /\ offline_operations[CurrentOp(c)].op_type = "upload_document"
    /\ LET doc_id == offline_operations[CurrentOp(c)].doc_id
           err == IF doc_id = NULL THEN ErrMissingDocId
                  ELSE IF ~documents[doc_id].row THEN ErrNotFound
                  ELSE IF documents[doc_id].local_path = NULL THEN ErrNoLocalPath
                  ELSE NULL
       IN  SetCycle(c, IF err = NULL
                       THEN [cycle[c] EXCEPT !.pc = "upload_url"]
                       ELSE [cycle[c] EXCEPT !.pc = "record", !.result = err])
    /\ UNCHANGED <<documents, offline_operations, local_identity, token, now,
                   command, remote_known, everDone, returned, failedSince, remote_log, pulled>>

\* step 1: POST /api/v1/sync/upload-url
upload_document_url(c) ==
    /\ cycle[c].pc = "upload_url"
    /\ \/ \E k \in Keys :
            SetCycle(c, [cycle[c] EXCEPT !.pc = "upload_put", !.key = k])
       \/ SetCycle(c, [cycle[c] EXCEPT !.pc = "record", !.result = ErrNetwork,
                                      !.accepted = FALSE])
    /\ UNCHANGED <<documents, offline_operations, local_identity, token, now,
                   command, remote_known, everDone, returned, failedSince, remote_log, pulled>>

\* mutant: the PUT without error_for_status: a refused transfer goes on
upload_document_put_unchecked(c) ==
    /\ cycle[c].pc = "upload_put"
    /\ \/ SetCycle(c, [cycle[c] EXCEPT !.pc = "upload_apply"])
       \/ SetCycle(c, [cycle[c] EXCEPT !.pc = "upload_apply", !.accepted = FALSE])
    /\ UNCHANGED <<documents, offline_operations, local_identity, token, now,
                   command, remote_known, everDone, returned, failedSince, remote_log, pulled>>

\* step 2: read the file and PUT its bytes to the presigned URL
upload_document_put(c) ==
    /\ cycle[c].pc = "upload_put"
    /\ \/ SetCycle(c, [cycle[c] EXCEPT !.pc = "upload_apply"])
       \/ SetCycle(c, [cycle[c] EXCEPT !.pc = "record", !.result = ErrStatus,
                                      !.accepted = FALSE])
    /\ UNCHANGED <<documents, offline_operations, local_identity, token, now,
                   command, remote_known, everDone, returned, failedSince, remote_log, pulled>>

\* step 3: POST /api/v1/sync/apply with a create_document change.  The remote
\* may have applied the change although the client sees an error (a timeout).
upload_document_apply(c) ==
    /\ cycle[c].pc = "upload_apply"
    /\ LET doc_id == offline_operations[CurrentOp(c)].doc_id
       IN  \/ /\ SetCycle(c, [cycle[c] EXCEPT !.pc = "upload_mark"])
              /\ remote_known' = remote_known \cup ({doc_id} \cap LocalIds)
           \/ /\ SetCycle(c, [cycle[c] EXCEPT !.pc = "record", !.result = ErrNetwork,
                                            !.accepted = FALSE])
              /\ \E applied \in BOOLEAN :
                    remote_known' = IF applied
                                    THEN remote_known \cup ({doc_id} \cap LocalIds)
                                    ELSE remote_known
    /\ UNCHANGED <<documents, offline_operations, local_identity, token, now,
                   command, everDone, returned, failedSince, remote_log, pulled>>

\* mutant: step 4 forgets to clear needs_upload
upload_document_row_keeps_flag(doc, object_key) ==
    [doc EXCEPT !.status = "synced",
                !.object_key = object_key,
                !.is_synced = TRUE,
                !.last_synced_at = now]

\* the UPDATE of step 4
upload_document_row(doc, object_key) ==
    [doc EXCEPT !.status = "synced",
                !.object_key = object_key,
                !.is_synced = TRUE,
                !.needs_upload = FALSE,
                !.last_synced_at = now]

\* step 4: mark the local record as synced (UPDATE ... WHERE id)
upload_document_mark(c) ==
    /\ cycle[c].pc = "upload_mark"
    /\ LET doc_id == offline_operations[CurrentOp(c)].doc_id
       IN  documents' = IF documents[doc_id].row
                        THEN [documents EXCEPT ![doc_id] =
                                 upload_document_row(documents[doc_id], cycle[c].key)]
                        ELSE documents
    /\ SetCycle(c, [cycle[c] EXCEPT !.pc = "record", !.result = "Ok"])
    /\ UNCHANGED <<offline_operations, local_identity, token, now, command,
                   remote_known, everDone, returned, failedSince, remote_log, pulled>>

\* delete_document_on_server: the payload's doc_id
delete_document_on_server_read(c) ==
    /\ cycle[c].pc = "exec"
    /\ offline_operations[CurrentOp(c)].op_type = "delete_document"
    /\ SetCycle(c, IF offline_operations[CurrentOp(c)].doc_id = NULL
                   THEN [cycle[c] EXCEPT !.pc = "record", !.result = ErrMissingDocId]
                   ELSE [cycle[c] EXCEPT !.pc = "delete_apply"])
    /\ UNCHANGED <<documents, offline_operations, local_identity, token, now,
                   command, remote_known, everDone, returned, failedSince, remote_log, pulled>>

\* delete_document_on_server: POST /api/v1/sync/apply with a delete_document change
delete_document_on_server(c) ==
    /\ cycle[c].pc = "delete_apply"
    /\ \/ SetCycle(c, [cycle[c] EXCEPT !.pc = "record", !.result = "Ok"])
       \/ SetCycle(c, [cycle[c] EXCEPT !.pc = "record", !.result = ErrStatus,
                                      !.accepted = FALSE])
    /\ UNCHANGED <<documents, offline_operations, local_identity, token, now,
                   command, remote_known, everDone, returned, failedSince, remote_log, pulled>>

\* mutant: an operation of an unrecognized kind is an error
unknown_op_fails(c) ==
    /\ cycle[c].pc = "exec"
    /\ offline_operations[CurrentOp(c)].op_type \notin {"upload_document", "delete_document"}
    /\ SetCycle(c, [cycle[c] EXCEPT !.pc = "record", !.result = "Unknown op"])
    /\ UNCHANGED <<documents, offline_operations, local_identity, token, now,
                   command, remote_known, everDone, returned, failedSince, remote_log, pulled>>

\* the arm `other => { log::warn!(..); Ok(()) }` of the op_type match
unknown_op(c) ==
    /\ cycle[c].pc = "exec"
    /\ offline_operations[CurrentOp(c)].op_type \notin {"upload_document", "delete_document"}
    /\ SetCycle(c, [cycle[c] EXCEPT !.pc = "record", !.result = "Ok"])
    /\ UNCHANGED <<documents, offline_operations, local_identity, token, now,
                   command, remote_known, everDone, returned, failedSince, remote_log, pulled>>

\* mutant: a success also clears the retry bookkeeping
record_done_resets(op) == [op EXCEPT !.status = "done", !.retry_count = 0]

\* UPDATE offline_operations SET status='done' WHERE id
record_done(op) == [op EXCEPT !.status = "done"]

\* mutant: the failure is recorded without counting the retry
record_failed_uncounted(op, msg) ==
    [op EXCEPT !.status = "failed", !.error_msg = msg]

\* UPDATE offline_operations SET retry_count = retry_count + 1,
\* status = 'failed', error_msg = ?1 WHERE id
record_failed(op, msg) ==
    [op EXCEPT !.retry_count = op.retry_count + 1, !.status = "failed",
               !.error_msg = msg]

\* process_pending_ops: `match result`, the status update of the operation
record_result(c) ==
    /\ cycle[c].pc = "record"
    /\ LET i == CurrentOp(c)
       IN  IF cycle[c].result = "Ok"
           THEN /\ offline_operations' =
                      [offline_operations EXCEPT ![i] = record_done(offline_operations[i])]
                /\ everDone' = everDone \cup {i}
           ELSE /\ offline_operations' =
                      [offline_operations EXCEPT
                          ![i] = record_failed(offline_operations[i], cycle[c].result)]
                /\ UNCHANGED everDone
    /\ SetCycle(c, AfterRecord(cycle[c]))
    /\ UNCHANGED <<documents, local_identity, token, now, command, remote_known,
                   returned, failedSince, remote_log, pulled>>

\* ----------------------------------------------------------- pull stage
ChangeTypes == {"document_created", "document_updated", "document_deleted", "other_change"}

\* the changes the remote service may report about the documents `ids`
\* (ts: the remote's time of the change, 0 where the model does not follow it)
Changes(ids) == [type : ChangeTypes, id : ids, object_key : Keys, ts : {0}]

RECURSIVE SeqsUpTo(_, _)
SeqsUpTo(S, n) ==
    IF n = 0 THEN {<<>>}
    ELSE LET shorter == SeqsUpTo(S, n - 1)
         IN  shorter \cup {Append(q, x) : q \in {r \in shorter : Len(r) = n - 1}, x \in S}

\* pull_server_changes: SELECT COALESCE(last_sync_at, '2000-01-01T00:00:00Z')
pull_server_changes_since(c) ==
    /\ cycle[c].pc = "pull_since"
    /\ SetCycle(c, [cycle[c] EXCEPT !.pc = "pull_fetch",
                       !.since = IF local_identity.row THEN local_identity.last_sync_at ELSE 0])
    /\ UNCHANGED <<documents, offline_operations, local_identity, token, now,
                   command, remote_known, everDone, returned, failedSince, remote_log, pulled>>

\* pull_server_changes: GET /api/v1/sync/changes?since=..., the remote
\* reporting changes about the documents `ids`
pull_server_changes_fetch(c, ids) ==
    /\ cycle[c].pc = "pull_fetch"
    /\ \/ \E changes \in SeqsUpTo(Changes(ids), MaxChanges) :
            SetCycle(c, [cycle[c] EXCEPT !.pc = "pull_apply", !.changes = changes])
       \/ SetCycle(c, Ended(ErrNetwork))
    /\ UNCHANGED <<documents, offline_operations, local_identity, token, now,
                   command, remote_known, everDone, returned, failedSince, remote_log, pulled>>

\* INSERT OR IGNORE INTO documents (...) VALUES (..., 'synced', 0, 1, 1)
server_document_row(object_key) ==
    [row |-> TRUE, status |-> "synced", is_synced |-> TRUE, needs_upload |-> FALSE,
     needs_download |-> TRUE, object_key |-> object_key, local_path |-> NULL,
     filename |-> "remote.txt", local_version |-> 1, last_synced_at |-> 0]

\* mutant: the UPDATE spares a document with an unsynced local edit
server_update_row_unless_edited(doc, object_key) ==
    IF doc.needs_upload
    THEN doc
    ELSE [doc EXCEPT !.object_key = object_key,
                     !.status = "synced",
                     !.is_synced = TRUE,
                     !.last_synced_at = now]

\* UPDATE documents SET object_key, status='synced', is_synced=1,
\* needs_upload=0, last_synced_at=datetime('now') WHERE id
server_update_row(doc, object_key) ==
    [doc EXCEPT !.object_key = object_key,
                !.status = "synced",
                !.is_synced = TRUE,
                !.needs_upload = FALSE,
                !.last_synced_at = now]

\* mutant: a change about a document the store holds is ignored (the
\* INSERT OR IGNORE alone, without the UPDATE branch)
apply_server_change_insert_only(docs, change) ==
    IF change.type \in {"document_updated", "document_created"}
    THEN IF ~docs[change.id].row
         THEN [docs EXCEPT ![change.id] = server_document_row(change.object_key)]
         ELSE docs
    ELSE IF change.type = "document_deleted"
    THEN IF docs[change.id].row
         THEN [docs EXCEPT ![change.id].status = "deleted"]
         ELSE docs
    ELSE docs

\* mutant: document_deleted handled like the other kinds, the row also
\* marked as in step with the remote
apply_server_change_delete_syncs(docs, change) ==
    IF change.type \in {"document_updated", "document_created"}
    THEN IF ~docs[change.id].row
         THEN [docs EXCEPT ![change.id] = server_document_row(change.object_key)]
         ELSE [docs EXCEPT ![change.id] = server_update_row(docs[change.id], change.object_key)]
    ELSE IF change.type = "document_deleted"
    THEN IF docs[change.id].row
         THEN [docs EXCEPT ![change.id].status = "deleted",
                           ![change.id].is_synced = TRUE,
                           ![change.id].needs_upload = FALSE]
         ELSE docs
    ELSE docs

\* mutant: a change of any other kind handled like document_updated
apply_server_change_any_kind(docs, change) ==
    IF change.type = "document_deleted"
    THEN IF docs[change.id].row
         THEN [docs EXCEPT ![change.id].status = "deleted"]
         ELSE docs
    ELSE IF ~docs[change.id].row
    THEN [docs EXCEPT ![change.id] = server_document_row(change.object_key)]
    ELSE [docs EXCEPT ![change.id] = server_update_row(docs[change.id], change.object_key)]

\* the documents table after apply_server_change(change)
apply_server_change(docs, change) ==
    IF change.type \in {"document_updated", "document_created"}
    THEN IF ~docs[change.id].row
         THEN [docs EXCEPT ![change.id] = server_document_row(change.object_key)]
         ELSE [docs EXCEPT ![change.id] = server_update_row(docs[change.id], change.object_key)]
    ELSE IF change.type = "document_deleted"
    THEN IF docs[change.id].row
         THEN [docs EXCEPT ![change.id].status = "deleted"]
         ELSE docs
    ELSE docs

\* how often the recorded change ch has been applied (2: twice or more)
Times(count, ch) == IF ch \in DOMAIN count THEN count[ch] ELSE 0

\* the history after one more application of ch
Counted(count, ch) ==
    [x \in DOMAIN count \cup {ch} |->
        IF x = ch THEN Min(Times(count, ch) + 1, 2) ELSE count[x]]

\* pull_server_changes: the loop over the changes, one change per step
pull_server_changes_apply(c) ==
    /\ cycle[c].pc = "pull_apply"
    /\ cycle[c].changes # <<>>
    /\ documents' = apply_server_change(documents, Head(cycle[c].changes))
    /\ SetCycle(c, [cycle[c] EXCEPT !.changes = Tail(cycle[c].changes)])
    /\ pulled' = IF Head(cycle[c].changes) \in remote_log
                 THEN Counted(pulled, Head(cycle[c].changes))
                 ELSE pulled
    /\ UNCHANGED <<offline_operations, local_identity, token, now, command,
                   remote_known, everDone, returned, failedSince, remote_log>>

\* pull_server_changes: UPDATE local_identity SET last_sync_at=datetime('now')
pull_server_changes_stamp(c) ==
    /\ cycle[c].pc = "pull_apply"
    /\ cycle[c].changes = <<>>
    /\ local_identity' = IF local_identity.row
                         THEN [local_identity EXCEPT !.last_sync_at = now]
                         ELSE local_identity
    /\ failedSince' = -1
    /\ SetCycle(c, Ended("Ok"))
    /\ UNCHANGED <<documents, offline_operations, token, now, command,
                   remote_known, everDone, returned, remote_log, pulled>>

\* mutant: the error of a change is logged and the checkpoint written all the same
pull_server_changes_apply_error_stamps(c) ==
    /\ cycle[c].pc = "pull_apply"
    /\ cycle[c].changes # <<>>
    /\ failedSince' = cycle[c].since
    /\ local_identity' = IF local_identity.row
                         THEN [local_identity EXCEPT !.last_sync_at = now]
                         ELSE local_identity
    /\ SetCycle(c, Ended(ErrStore))
    /\ UNCHANGED <<documents, offline_operations, token, now,
                   command, remote_known, everDone, returned, remote_log, pulled>>

\* mutant: the error of a change is logged and the loop goes on with the
\* next change
pull_server_changes_apply_error_skips(c) ==
    /\ cycle[c].pc = "pull_apply"
    /\ cycle[c].changes # <<>>
    /\ failedSince' = cycle[c].since
    /\ SetCycle(c, [cycle[c] EXCEPT !.changes = Tail(cycle[c].changes)])
    /\ UNCHANGED <<documents, offline_operations, local_identity, token, now,
                   command, remote_known, everDone, returned, remote_log, pulled>>

\* pull_server_changes: `apply_server_change(app, change).await?` returning
\* the error of a store statement: the pull ends before its last statement
pull_server_changes_apply_error(c) ==
    /\ cycle[c].pc = "pull_apply"
    /\ cycle[c].changes # <<>>
    /\ failedSince' = cycle[c].since
    /\ SetCycle(c, Ended(ErrStore))
    /\ UNCHANGED <<documents, offline_operations, local_identity, token, now,
                   command, remote_known, everDone, returned, remote_log, pulled>>

\* ------------------------------------------------------ the remote service
\* the recorded changes after `since` (or, for a remote whose bound is
\* inclusive, from `since` on), oldest first
RECURSIVE ChangesSince(_, _, _)
ChangesSince(log, since, inclusive) ==
    LET later == {ch \in log : ch.ts > since \/ (inclusive /\ ch.ts = since)}
    IN  IF later = {} THEN <<>>
        ELSE LET first == CHOOSE ch \in later : \A other \in later : ch.ts <= other.ts
             IN  <<first>> \o ChangesSince(log \ {first}, since, inclusive)

\* the kinds of change the remote records about a document it holds
RemoteChangeTypes == {"document_created", "document_updated"}

\* the remote service records a change of one of its documents, at most one
\* per second
remote_change ==
    /\ \A ch \in remote_log : ch.ts # now
    /\ \E type \in RemoteChangeTypes, id \in RemoteIds, k \in Keys :
          remote_log' = remote_log \cup
              {[type |-> type, id |-> id, object_key |-> k, ts |-> now]}
    /\ UNCHANGED <<documents, offline_operations, local_identity, token, now, cycle,
                   command, remote_known, everDone, returned, failedSince, pulled>>

\* the remote service records a change of a kind this client has no arm
\* for, at most one change per second
remote_other_change ==
    /\ \A ch \in remote_log : ch.ts # now
    /\ \E id \in RemoteIds, k \in Keys :
          remote_log' = remote_log \cup
              {[type |-> "other_change", id |-> id, object_key |-> k, ts |-> now]}
    /\ UNCHANGED <<documents, offline_operations, local_identity, token, now, cycle,
                   command, remote_known, everDone, returned, failedSince, pulled>>

\* pull_server_changes: GET /api/v1/sync/changes?since=..., answered by a
\* remote that reports the changes it recorded since `since`
pull_server_changes_fetch_since(c) ==
    /\ cycle[c].pc = "pull_fetch"
    /\ \/ \E inclusive \in BOOLEAN :
            SetCycle(c, [cycle[c] EXCEPT !.pc = "pull_apply",
                            !.changes = ChangesSince(remote_log, cycle[c].since, inclusive)])
       \/ SetCycle(c, Ended(ErrNetwork))
    /\ UNCHANGED <<documents, offline_operations, local_identity, token, now,
                   command, remote_known, everDone, returned, failedSince, remote_log, pulled>>

\* pull_server_changes: GET /api/v1/sync/changes?since=..., answered with a
\* non-2xx status and a JSON body, or with a body that has no `changes`
\* array: there is no error_for_status, and as_array() of the missing field
\* is None, which unwrap_or_default() turns into no changes
pull_server_changes_fetch_refused(c) ==
    /\ cycle[c].pc = "pull_fetch"
    /\ SetCycle(c, [cycle[c] EXCEPT !.pc = "pull_apply", !.changes = <<>>,
                                    !.accepted = FALSE])
    /\ UNCHANGED <<documents, offline_operations, local_identity, token, now,
                   command, remote_known, everDone, returned, failedSince, remote_log, pulled>>

\* ------------------------------------------------------------ the clock
\* a second passes
Tick ==
    /\ now < MaxNow
    /\ now' = now + 1
    /\ UNCHANGED <<documents, offline_operations, local_identity, token, cycle,
                   command, remote_known, everDone, returned, failedSince, remote_log, pulled>>

\* ---------------------------------------------------------- auth commands
\* store_oauth_token, first write: the token into the OS keychain
store_oauth_token_keyring ==
    /\ command = NoCommand
    /\ token' = TRUE
    /\ command' = [name |-> "store_oauth_token", id |-> NULL]
    /\ UNCHANGED <<documents, offline_operations, local_identity, now, cycle,
                   remote_known, everDone, returned, failedSince, remote_log, pulled>>

\* mutant: the upsert written as INSERT OR REPLACE, which rewrites the row
store_oauth_token_row_replaces(identity) == [row |-> TRUE, last_sync_at |-> 0]

\* INSERT INTO local_identity (id, server_url, username, updated_at) ...
\* ON CONFLICT(id) DO UPDATE SET server_url, username, updated_at
store_oauth_token_row(identity) ==
    IF identity.row THEN identity ELSE [row |-> TRUE, last_sync_at |-> 0]

\* store_oauth_token, second write: the identity row
store_oauth_token_identity ==
    /\ command.name = "store_oauth_token"
    /\ local_identity' = store_oauth_token_row(local_identity)
    /\ command' = NoCommand
    /\ UNCHANGED <<documents, offline_operations, token, now, cycle,
                   remote_known, everDone, returned, failedSince, remote_log, pulled>>

\* clear_oauth_token: delete the keychain entry (an error when there is none)
clear_oauth_token ==
    /\ token
    /\ token' = FALSE
    /\ UNCHANGED <<documents, offline_operations, local_identity, now, cycle,
                   command, remote_known, everDone, returned, failedSince, remote_log, pulled>>

\* ------------------------------------------------------- queue commands
\* mutant: the reset without its WHERE clause
retry_failed_row_all(op) ==
    [op EXCEPT !.status = "pending", !.retry_count = 0, !.error_msg = NULL]

\* UPDATE offline_operations SET status='pending', retry_count=0,
\* error_msg=NULL WHERE status='failed'
retry_failed_row(op) ==
    IF op.status = "failed"
    THEN [op EXCEPT !.status = "pending", !.retry_count = 0, !.error_msg = NULL]
    ELSE op

\* the rows the WHERE clause of that UPDATE matches (`affected`)
affected(ops) ==
    Cardinality({i \in 1..Len(ops) : ops[i].status = "failed"})

\* retry_failed_operations: the reset, then the spawn of one cycle (a spawn
\* that finds every modelled slot busy is a cycle the model does not follow),
\* and Ok(affected)
retry_failed_operations(slots) ==
    /\ offline_operations' =
        [i \in OpIds |-> retry_failed_row(offline_operations[i])]
    /\ returned' = affected(offline_operations)
    /\ IF FreeSlot(slots) # {}
       THEN \E c \in FreeSlot(slots) :
               SetCycle(c, IF token THEN [IdleCycle EXCEPT !.pc = "probe"] ELSE Ended("Ok"))
       ELSE UNCHANGED cycle
    /\ UNCHANGED <<documents, local_identity, token, now, command, remote_known,
                   everDone, failedSince, remote_log, pulled>>

\* get_pending_operations: SELECT ... WHERE status IN ('pending','failed')
\* ORDER BY created_at DESC LIMIT 50 (the ids, newest first)
get_pending_operations(ops) ==
    LET ids == [i \in 1..Len(ops) |-> Len(ops) + 1 - i]
        hit(i) == ops[i].status \in {"pending", "failed"}
        sel == SelectSeq(ids, hit)
    IN  SubSeq(sel, 1, Min(PendingListLimit, Len(sel)))

\* ---------------------------------------------------------- read commands
\* the search terms: the filenames the model uses
Queries == CreateNames \cup UpdateNames \cup {"remote.txt"}

\* documents_fts MATCH ?1: the index rows mirror the documents rows (the
\* triggers docs_fts_insert and docs_fts_update), a term matches a filename
Matches(doc, query) == doc.filename = query

\* get_document: SELECT ... FROM documents WHERE id = ?1 (NoRow stands for
\* Err("Document not found"))
get_document(docs, id) ==
    IF docs[id].row THEN docs[id] ELSE NoRow

\* mutant: the listing without its WHERE clause
get_documents_unfiltered(docs) == {d \in DocIds : docs[d].row}

\* get_documents: SELECT ... FROM documents WHERE status != 'deleted'
\* (the ids of the rows returned)
get_documents(docs) == {d \in DocIds : docs[d].row /\ docs[d].status # "deleted"}

\* search_documents: SELECT ... FROM documents d JOIN documents_fts fts
\* WHERE d.status != 'deleted' AND documents_fts MATCH ?1
search_documents(docs, query) ==
    {d \in DocIds : /\ docs[d].row
                     /\ docs[d].status # "deleted"
                     /\ Matches(docs[d], query)}

\* ------------------------------------------------------------------ Next
\* the push stage of cycle c
PushStep(c) ==
    \/ health_probe(c)
    \/ process_pending_ops_select(c)
    \/ upload_document_read(c)
    \/ upload_document_url(c)
    \/ upload_document_put(c)
    \/ upload_document_apply(c)
    \/ upload_document_mark(c)
    \/ delete_document_on_server_read(c)
    \/ delete_document_on_server(c)
    \/ record_result(c)

\* the pull stage of cycle c, the remote reporting changes about `ids`
PullStep(c, ids) ==
    \/ pull_server_changes_since(c)
    \/ pull_server_changes_fetch(c, ids)
    \/ pull_server_changes_apply(c)
    \/ pull_server_changes_stamp(c)

\* The timer loop alone (cycles never overlap), every document command, and
\* a remote that reports changes about the documents it was sent.
Next ==
    \/ create_document_insert
    \/ create_document_queue
    \/ update_document
    \/ delete_document_mark
    \/ delete_document_queue
    \/ retry_failed_operations({})
    \/ start
    \/ PushStep(TimerCycle)
    \/ PullStep(TimerCycle, remote_known)

Spec == Init /\ [][Next]_vars

\* The timer loop and on-demand cycles running at the same time over one
\* created document and its upload; the remote reports no changes.
NextRace ==
    \/ create_document_insert
    \/ create_document_queue
    \/ retry_failed_operations(RaceCycles \ {TimerCycle})
    \/ start
    \/ trigger_sync(RaceCycles \ {TimerCycle})
    \/ \E c \in RaceCycles :
          \/ health_probe(c)
          \/ process_pending_ops_select(c)
          \/ upload_document_read(c)
          \/ upload_document_url(c)
          \/ upload_document_put(c)
          \/ upload_document_apply(c)
          \/ upload_document_mark(c)
          \/ record_result(c)
          \/ pull_server_changes_since(c)
          \/ pull_server_changes_fetch(c, {})
          \/ pull_server_changes_stamp(c)

SpecRace == Init /\ [][NextRace]_vars

\* A store that already holds queue rows this build never writes (op_type
\* and payload are free TEXT columns): an operation of another kind, payloads
\* without doc_id, an upload whose document row is not in the store.
LegacyRows ==
    {offline_operation_row("archive_document", NULL),
     offline_operation_row("upload_document", NULL),
     offline_operation_row("delete_document", NULL),
     offline_operation_row("upload_document", "r1")}

InitLegacy ==
    /\ documents = [d \in DocIds |-> NoRow]
    /\ offline_operations \in
          {q \in SeqsUpTo(LegacyRows, MaxLegacy) : q # <<>>}
    /\ local_identity = [row |-> TRUE, last_sync_at |-> 0]
    /\ token = TRUE
    /\ now = 1
    /\ cycle = [c \in Cycles |-> IdleCycle]
    /\ command = NoCommand
    /\ remote_known = {}
    /\ everDone = {}
    /\ returned = 0
    /\ failedSince = -1
    /\ remote_log = {}
    /\ pulled = <<>>

\* The timer loop over such a store; the user creates and deletes documents and
\* resets failed operations, the remote reports changes about its own documents.
NextLegacy ==
    \/ create_document_insert
    \/ create_document_queue
    \/ delete_document_mark
    \/ delete_document_queue
    \/ retry_failed_operations({})
    \/ start
    \/ PushStep(TimerCycle)
    \/ unknown_op(TimerCycle)
    \/ PullStep(TimerCycle, RemoteIds)

SpecLegacy == InitLegacy /\ [][NextLegacy]_vars

\* A store in which d1 was created, uploaded and then deleted: its
\* delete_document operation is pending.
InitBurst ==
    /\ now = 1
    /\ documents = [d \in DocIds |->
                       IF d = "d1"
                       THEN [upload_document_row(create_document_row("a.txt"), "k1")
                                EXCEPT !.status = "deleted"]
                       ELSE NoRow]
    /\ offline_operations =
          <<record_done(offline_operation_row("upload_document", "d1")),
            offline_operation_row("delete_document", "d1")>>
    /\ local_identity = [row |-> TRUE, last_sync_at |-> 0]
    /\ token = TRUE
    /\ cycle = [c \in Cycles |-> IdleCycle]
    /\ command = NoCommand
    /\ remote_known = {"d1"}
    /\ everDone = {1}
    /\ returned = 0
    /\ failedSince = -1
    /\ remote_log = {}
    /\ pulled = <<>>

\* The timer loop and a burst of trigger_sync calls over that store, each
\* cycle followed to the end of its push stage.
NextBurst ==
    \/ start
    \/ trigger_sync(BurstCycles \ {TimerCycle})
    \/ \E c \in BurstCycles :
          \/ health_probe(c)
          \/ process_pending_ops_select(c)
          \/ delete_document_on_server_read(c)
          \/ delete_document_on_server(c)
          \/ record_result(c)

SpecBurst == InitBurst /\ [][NextBurst]_vars

\* The same store with the timer loop and retry_failed_operations, whose
\* spawned cycle runs next to the timer's; the remote reports no changes.
NextRetry ==
    \/ retry_failed_operations(RaceCycles \ {TimerCycle})
    \/ start
    \/ \E c \in RaceCycles :
          \/ health_probe(c)
          \/ process_pending_ops_select(c)
          \/ delete_document_on_server_read(c)
          \/ delete_document_on_server(c)
          \/ record_result(c)
          \/ pull_server_changes_since(c)
          \/ pull_server_changes_fetch(c, {})
          \/ pull_server_changes_stamp(c)

SpecRetry == InitBurst /\ [][NextRetry]_vars

\* A long queue of operations of a kind this build does not know (each is
\* executed without a request), all pending but at most one, which is 'done'
\* or 'failed' after one or after five failed executions.
SettledRows ==
    {record_done(offline_operation_row("archive_document", NULL)),
     record_failed(offline_operation_row("archive_document", NULL), ErrNetwork),
     [offline_operation_row("archive_document", NULL)
         EXCEPT !.status = "failed", !.retry_count = MaxRetries, !.error_msg = ErrNetwork]}

InitBatch ==
    /\ documents = [d \in DocIds |-> NoRow]
    /\ \E n \in (MaxQueue - 3)..MaxQueue, p \in 0..MaxQueue, settled \in SettledRows :
          offline_operations =
              [i \in 1..n |-> IF i = p THEN settled
                              ELSE offline_operation_row("archive_document", NULL)]
    /\ local_identity = [row |-> TRUE, last_sync_at |-> 0]
    /\ token = TRUE
    /\ now = 1
    /\ cycle = [c \in Cycles |-> IdleCycle]
    /\ command = NoCommand
    /\ remote_known = {}
    /\ everDone = {}
    /\ returned = 0
    /\ failedSince = -1
    /\ remote_log = {}
    /\ pulled = <<>>

\* One cycle of the timer loop over that queue, followed to the end of its
\* push stage.
NextBatch ==
    \/ start
    \/ health_probe(TimerCycle)
    \/ process_pending_ops_select(TimerCycle)
    \/ unknown_op(TimerCycle)
    \/ record_result(TimerCycle)

SpecBatch == InitBatch /\ [][NextBatch]_vars

\* A database that run_migrations has just created: no local_identity row
\* (only store_oauth_token inserts one); the keychain, which outlives the
\* database file, may hold a token.
InitCheckpoint ==
    /\ documents = [d \in DocIds |-> NoRow]
    /\ offline_operations = <<>>
    /\ local_identity = [row |-> FALSE, last_sync_at |-> 0]
    /\ token \in BOOLEAN
    /\ now = 1
    /\ cycle = [c \in Cycles |-> IdleCycle]
    /\ command = NoCommand
    /\ remote_known = {}
    /\ everDone = {}
    /\ returned = 0
    /\ failedSince = -1
    /\ remote_log = {}
    /\ pulled = <<>>

\* The timer loop over an empty queue while time passes, the user logs in
\* and out, the remote records changes, and a change application may fail.
NextCheckpoint ==
    \/ Tick
    \/ store_oauth_token_keyring
    \/ store_oauth_token_identity
    \/ clear_oauth_token
    \/ remote_change
    \/ start
    \/ health_probe(TimerCycle)
    \/ process_pending_ops_select(TimerCycle)
    \/ pull_server_changes_since(TimerCycle)
    \/ pull_server_changes_fetch_since(TimerCycle)
    \/ pull_server_changes_apply(TimerCycle)
    \/ pull_server_changes_apply_error(TimerCycle)
    \/ pull_server_changes_stamp(TimerCycle)

SpecCheckpoint == InitCheckpoint /\ [][NextCheckpoint]_vars

\* The timer loop and every document command, as in Spec, while the user
\* logs out and in again (or changes the server).
NextAuth ==
    \/ Next
    \/ store_oauth_token_keyring
    \/ store_oauth_token_identity
    \/ clear_oauth_token

SpecAuth == Init /\ [][NextAuth]_vars

\* A first run: a database that run_migrations has just created and a
\* keychain without token; the user works on documents before logging in.
InitFirstRun ==
    /\ documents = [d \in DocIds |-> NoRow]
    /\ offline_operations = <<>>
    /\ local_identity = [row |-> FALSE, last_sync_at |-> 0]
    /\ token = FALSE
    /\ now = 1
    /\ cycle = [c \in Cycles |-> IdleCycle]
    /\ command = NoCommand
    /\ remote_known = {}
    /\ everDone = {}
    /\ returned = 0
    /\ failedSince = -1
    /\ remote_log = {}
    /\ pulled = <<>>

SpecFirstRun == InitFirstRun /\ [][NextAuth]_vars

\* The timer loop over an empty queue, pulling the changes the remote
\* records, while the user renames documents; every store statement succeeds.
NextPull ==
    \/ Tick
    \/ remote_change
    \/ update_document
    \/ start
    \/ health_probe(TimerCycle)
    \/ process_pending_ops_select(TimerCycle)
    \/ pull_server_changes_since(TimerCycle)
    \/ pull_server_changes_fetch_since(TimerCycle)
    \/ pull_server_changes_apply(TimerCycle)
    \/ pull_server_changes_stamp(TimerCycle)

SpecPull == Init /\ [][NextPull]_vars

\* The timer loop alone over the operations that create_document and
\* delete_document queue, without any manual retry; the remote reports no
\* changes.
NextDelivery ==
    \/ create_document_insert
    \/ create_document_queue
    \/ delete_document_mark
    \/ delete_document_queue
    \/ start
    \/ PushStep(TimerCycle)
    \/ pull_server_changes_since(TimerCycle)
    \/ pull_server_changes_fetch(TimerCycle, {})
    \/ pull_server_changes_stamp(TimerCycle)

\* The timer loop never stops (the sleep of `start` ends, every statement
\* and every request returns), a command that has begun finishes, and each
\* kind of request that is sent again and again is eventually answered with
\* success.
FairDelivery ==
    /\ WF_vars(start)
    /\ WF_vars(PushStep(TimerCycle))
    /\ WF_vars(pull_server_changes_since(TimerCycle))
    /\ WF_vars(pull_server_changes_fetch(TimerCycle, {}))
    /\ WF_vars(pull_server_changes_stamp(TimerCycle))
    /\ WF_vars(create_document_queue)
    /\ WF_vars(delete_document_queue)
    /\ SF_vars(health_probe(TimerCycle) /\ cycle'[TimerCycle].pc = "select")
    /\ SF_vars(upload_document_url(TimerCycle) /\ cycle'[TimerCycle].pc = "upload_put")
    /\ SF_vars(upload_document_put(TimerCycle) /\ cycle'[TimerCycle].pc = "upload_apply")
    /\ SF_vars(upload_document_apply(TimerCycle) /\ cycle'[TimerCycle].pc = "upload_mark")
    /\ SF_vars(delete_document_on_server(TimerCycle) /\ cycle'[TimerCycle].result = "Ok")
    /\ SF_vars(pull_server_changes_fetch(TimerCycle, {}) /\ cycle'[TimerCycle].pc # "idle")

SpecDelivery == Init /\ [][NextDelivery]_vars /\ FairDelivery

\* The timer loop over an empty queue, pulling from a remote that records
\* changes of known and of unrecognized kinds; every store statement succeeds.
NextKinds ==
    \/ Tick
    \/ remote_change
    \/ remote_other_change
    \/ start
    \/ health_probe(TimerCycle)
    \/ process_pending_ops_select(TimerCycle)
    \/ pull_server_changes_since(TimerCycle)
    \/ pull_server_changes_fetch_since(TimerCycle)
    \/ pull_server_changes_apply(TimerCycle)
    \/ pull_server_changes_stamp(TimerCycle)

SpecKinds == Init /\ [][NextKinds]_vars

\* The timer loop with every way a cycle can end: the keychain holds a
\* token or none, the user creates and deletes a document, the remote
\* records a change, a request or the application of a change may fail.
NextLoop ==
    \/ create_document_insert
    \/ create_document_queue
    \/ delete_document_mark
    \/ delete_document_queue
    \/ remote_change
    \/ start
    \/ PushStep(TimerCycle)
    \/ pull_server_changes_since(TimerCycle)
    \/ pull_server_changes_fetch_since(TimerCycle)
    \/ pull_server_changes_apply(TimerCycle)
    \/ pull_server_changes_apply_error(TimerCycle)
    \/ pull_server_changes_stamp(TimerCycle)

\* a step of the running timer cycle
CycleStep ==
    \/ PushStep(TimerCycle)
    \/ pull_server_changes_since(TimerCycle)
    \/ pull_server_changes_fetch_since(TimerCycle)
    \/ pull_server_changes_apply(TimerCycle)
    \/ pull_server_changes_apply_error(TimerCycle)
    \/ pull_server_changes_stamp(TimerCycle)

\* The sleep of the loop ends, and every statement and every request of a
\* cycle returns (the client is built with an 8 s timeout).
FairLoop ==
    /\ WF_vars(start)
    /\ WF_vars(CycleStep)

SpecLoop == InitCheckpoint /\ [][NextLoop]_vars /\ FairLoop

\* The timer loop over an empty queue, pulling from a remote that records
\* changes and sometimes refuses the request (an expired token, a server
\* error) or answers without a list of changes.
NextRefused ==
    \/ Tick
    \/ remote_change
    \/ start
    \/ health_probe(TimerCycle)
    \/ process_pending_ops_select(TimerCycle)
    \/ pull_server_changes_since(TimerCycle)
    \/ pull_server_changes_fetch_since(TimerCycle)
    \/ pull_server_changes_fetch_refused(TimerCycle)
    \/ pull_server_changes_apply(TimerCycle)
    \/ pull_server_changes_stamp(TimerCycle)

SpecRefused == Init /\ [][NextRefused]_vars

\* The timer loop and every document command, as in Spec, the user also
\* deleting documents the store does not hold.
NextDelete ==
    \/ Next
    \/ delete_document_not_found

SpecDelete == Init /\ [][NextDelete]_vars

\* ---------------------------------------------------------------- claims
PullStages == {"pull_since", "pull_fetch", "pull_apply"}
ExecStages == {"exec", "upload_url", "upload_put", "upload_apply", "delete_apply"}
Quiescent == \A c \in Cycles : cycle[c].pc = "idle"

\* the queued (not 'done') upload_document operations whose payload names d
QueuedUploads(d) ==
    {i \in OpIds : /\ offline_operations[i].op_type = "upload_document"
                   /\ offline_operations[i].doc_id = d
                   /\ offline_operations[i].status # "done"}

UploadOps(d) ==
    {i \in OpIds : /\ offline_operations[i].op_type = "upload_document"
                   /\ offline_operations[i].doc_id = d}

\* C1: the tombstone is terminal: a step that starts with a document's status
\* 'deleted' ends with that status still 'deleted'.
C1_TombstoneTerminal ==
    [][\A d \in DocIds :
          documents[d].status = "deleted" => documents'[d].status = "deleted"]_vars

\* C2: an operation whose status has been 'done' is never 'pending' again.
C2_DoneNeverPending ==
    \A i \in everDone : offline_operations[i].status # "pending"

\* C3: in every state a caller can observe, a document has needs_upload = true
\* exactly when a queued (not 'done') upload_document operation names it.
C3_NeedsUploadIffQueued ==
    \A d \in DocIds :
        (documents[d].row /\ documents[d].needs_upload) <=> QueuedUploads(d) # {}

\* C4: a document created by create_document has exactly one upload_document
\* operation, and its needs_upload flag is true as long as that operation is
\* not 'done'.  Stated for the states in which the command has returned and no
\* cycle is running, where no write of an operation in progress is missing.
C4_NeedsUploadUntilDone ==
    \A d \in LocalIds :
        (documents[d].row /\ command.name # "create_document" /\ Quiescent) =>
            /\ Cardinality(UploadOps(d)) = 1
            /\ QueuedUploads(d) # {} => documents[d].needs_upload

\* C5: once a cycle in which the remote accepted every request has executed
\* the delete_document operation of D, that operation is 'done' and D's status
\* is still 'deleted'.
C5_DeletedAfterCycle ==
    \A c \in Cycles :
        (cycle[c].pc \in PullStages /\ cycle[c].accepted) =>
            \A k \in 1..Len(cycle[c].batch) :
                LET op == offline_operations[cycle[c].batch[k]]
                IN  op.op_type = "delete_document" =>
                        /\ op.status = "done"
                        /\ documents[op.doc_id].status = "deleted"

\* C6: the step that ends a fully successful upload leaves the document
\* 'synced', is_synced, not needs_upload, with the object reference the
\* upload-target request returned and last_synced_at stamped; the outcome it
\* hands to the queue is success, and recording it sets the operation 'done'.
C6_UploadSuccess ==
    [][\A c \in Cycles :
          /\ (cycle[c].pc = "upload_mark" /\ cycle'[c].pc # "upload_mark") =>
                LET d == offline_operations[CurrentOp(c)].doc_id
                IN  /\ documents'[d].status = "synced"
                    /\ documents'[d].is_synced
                    /\ ~documents'[d].needs_upload
                    /\ documents'[d].object_key = cycle[c].key
                    /\ cycle[c].key \in Keys
                    /\ documents'[d].last_synced_at = now
                    /\ cycle'[c].pc = "record"
                    /\ cycle'[c].result = "Ok"
          /\ (cycle[c].pc = "record" /\ cycle[c].result = "Ok"
                /\ cycle'[c].pc # "record") =>
                offline_operations'[CurrentOp(c)].status = "done"]_vars

\* an upload recorded 'done' whose document carries the returned reference
C6_Witness ==
    \E i \in OpIds :
        /\ offline_operations[i].op_type = "upload_document"
        /\ offline_operations[i].status = "done"
        /\ documents[offline_operations[i].doc_id].status = "synced"
        /\ documents[offline_operations[i].doc_id].object_key = "k2"
        /\ documents[offline_operations[i].doc_id].last_synced_at = now

\* a step of cycle c
Steps(c) == cycle'[c] # cycle[c]

\* C7: a failing execution leaves the documents as they were (no step of an
\* execution before its last, successful one writes a document, and only
\* such a step fails), and recording the failure adds exactly 1 to the
\* operation's retry_count, sets its status 'failed' and its error_msg to the
\* error text, and changes nothing else.
C7_FailureRecorded ==
    [][\A c \in Cycles :
          /\ (Steps(c) /\ cycle[c].pc \in ExecStages) => documents' = documents
          /\ (Steps(c) /\ cycle[c].pc # "record" /\ cycle'[c].pc = "record"
                /\ cycle'[c].result # "Ok") =>
                /\ cycle[c].pc \in ExecStages
                /\ offline_operations' = offline_operations
          /\ (Steps(c) /\ cycle[c].pc = "record" /\ cycle[c].result # "Ok") =>
                LET i == CurrentOp(c)
                    op == offline_operations[i]
                IN  /\ documents' = documents
                    /\ offline_operations' =
                          [offline_operations EXCEPT
                              ![i] = [op EXCEPT !.retry_count = op.retry_count + 1,
                                                !.status = "failed",
                                                !.error_msg = cycle[c].result]]]_vars

\* an upload that failed on a document without local_path, recorded
C7_Witness ==
    \E i \in OpIds :
        /\ offline_operations[i].status = "failed"
        /\ offline_operations[i].retry_count = 1
        /\ offline_operations[i].error_msg = ErrNoLocalPath

\* C8: after the failure of an operation is recorded the same invocation goes
\* on with the next operation of its batch, or, after the last one, with the
\* pull stage; the pull stage starts only when every operation of the batch
\* has been executed.
C8_FailureIsolated ==
    [][\A c \in Cycles :
          /\ (Steps(c) /\ cycle[c].pc = "record" /\ cycle[c].result # "Ok") =>
                IF cycle[c].at < Len(cycle[c].batch)
                THEN /\ cycle'[c].pc = "exec"
                     /\ cycle'[c].at = cycle[c].at + 1
                     /\ cycle'[c].batch = cycle[c].batch
                ELSE cycle'[c].pc = "pull_since"
          /\ (cycle[c].pc \in PullStages /\ cycle[c].batch # <<>>) =>
                cycle[c].at = Len(cycle[c].batch) + 1]_vars

\* a cycle in its pull stage whose first operation failed and whose second
\* was executed all the same
C8_Witness ==
    \E c \in Cycles :
        /\ cycle[c].pc \in PullStages
        /\ Len(cycle[c].batch) >= 2
        /\ offline_operations[cycle[c].batch[1]].status = "failed"
        /\ offline_operations[cycle[c].batch[2]].status = "done"

KnownOpTypes == {"upload_document", "delete_document"}

\* the cycles that are executing an operation of an unrecognized kind
AtUnknownOp(c) ==
    /\ cycle[c].pc \in {"exec", "record"}
    /\ offline_operations[CurrentOp(c)].op_type \notin KnownOpTypes

\* C9 as claimed: the push pipeline leaves the status and the retry_count of
\* an operation of an unrecognized kind as they were.
C9_UnknownOpUntouched ==
    [][\A c \in Cycles :
          (Steps(c) /\ AtUnknownOp(c)) =>
              LET i == CurrentOp(c)
              IN  /\ offline_operations'[i].status = offline_operations[i].status
                  /\ offline_operations'[i].retry_count = offline_operations[i].retry_count]_vars

\* C9 as amended: an operation of an unrecognized kind is executed without a
\* request and without a store write, its outcome is success, and recording
\* it sets the status 'done' and leaves retry_count, error_msg and every
\* document as they were.
C9_UnknownOpMarkedDone ==
    [][\A c \in Cycles :
          (Steps(c) /\ AtUnknownOp(c)) =>
              LET i == CurrentOp(c)
              IN  IF cycle[c].pc = "exec"
                  THEN /\ cycle'[c].pc = "record"
                       /\ cycle'[c].result = "Ok"
                       /\ UNCHANGED <<documents, offline_operations, remote_known>>
                  ELSE /\ offline_operations' =
                            [offline_operations EXCEPT ![i].status = "done"]
                       /\ UNCHANGED <<documents, remote_known>>]_vars

\* an operation of an unrecognized kind that the push pipeline has marked
C9_Witness ==
    \E i \in OpIds :
        /\ offline_operations[i].op_type \notin KnownOpTypes
        /\ offline_operations[i].status = "done"
        /\ offline_operations[i].retry_count = 0

\* the state InitBurst starts from, as the commands and a cycle produce it
BurstStart ==
    /\ documents = [d \in DocIds |->
                       IF d = "d1"
                       THEN [upload_document_row(create_document_row("a.txt"), "k1")
                                EXCEPT !.status = "deleted"]
                       ELSE NoRow]
    /\ offline_operations =
          <<record_done(offline_operation_row("upload_document", "d1")),
            offline_operation_row("delete_document", "d1")>>
    /\ Quiescent
    /\ command = NoCommand

\* C10: an operation whose retry_count has reached 5 (and has not been reset)
\* is not in the batch an automatic push would select, has status 'failed',
\* and is among the operations get_pending_operations returns.
C10_RetryCap ==
    \A i \in OpIds :
        offline_operations[i].retry_count >= MaxRetries =>
            /\ i \notin SeqToSet(SelectBatch(offline_operations))
            /\ offline_operations[i].status = "failed"
            /\ i \in SeqToSet(get_pending_operations(offline_operations))

\* the step in which cycle c records a failed execution of operation i
RecordsFailureOf(c, i) ==
    /\ Steps(c)
    /\ cycle[c].pc = "record"
    /\ cycle[c].result # "Ok"
    /\ CurrentOp(c) = i

\* C11 as claimed: the retry_count of an operation changes only in a step
\* that records a failed execution of it, and then by exactly +1.
C11_RetryCountOnlyGrows ==
    [][\A i \in OpIds :
          \/ offline_operations'[i].retry_count = offline_operations[i].retry_count
          \/ /\ \E c \in Cycles : RecordsFailureOf(c, i)
             /\ offline_operations'[i].retry_count =
                   offline_operations[i].retry_count + 1]_vars

\* C11 as amended: the retry_count of an operation changes only in a step
\* that records a failed execution of it (by exactly +1) or in the reset of
\* retry_failed_operations, which sets it to 0 for an operation that is
\* 'failed' and makes that operation 'pending'.
C11_RetryCountGrowsOrResets ==
    [][\A i \in OpIds :
          \/ offline_operations'[i].retry_count = offline_operations[i].retry_count
          \/ /\ \E c \in Cycles : RecordsFailureOf(c, i)
             /\ offline_operations'[i].retry_count =
                   offline_operations[i].retry_count + 1
          \/ /\ offline_operations[i].status = "failed"
             /\ offline_operations'[i].status = "pending"
             /\ offline_operations'[i].retry_count = 0
             /\ UNCHANGED documents
             /\ \A c \in Cycles : cycle[c].pc # "idle" => cycle'[c] = cycle[c]]_vars

\* an operation a cycle executed and recorded as failed, reset since by
\* retry_failed_operations while that cycle is still in its pull stage
C11_Witness ==
    \E c \in Cycles, i \in OpIds :
        /\ cycle[c].pc \in PullStages
        /\ i \in SeqToSet(cycle[c].batch)
        /\ offline_operations[i].status = "pending"
        /\ offline_operations[i].retry_count = 0

\* the step of retry_failed_operations: the only one that makes a 'failed'
\* operation 'pending', and the only one that writes the returned count
ResetStep ==
    \/ \E i \in OpIds : /\ offline_operations[i].status = "failed"
                        /\ offline_operations'[i].status = "pending"
    \/ returned' # returned

\* C12: retry_failed_operations sets every 'failed' operation to 'pending'
\* with retry_count 0 and no error_msg, returns the number of operations it
\* reset, leaves every other operation, the documents and the checkpoint as
\* they were, and the one cycle it starts has read nothing yet: it begins
\* after the reset.
C12_RetryResetsFailed ==
    [][ResetStep =>
          /\ Len(offline_operations') = Len(offline_operations)
          /\ \A i \in OpIds :
                IF offline_operations[i].status = "failed"
                THEN offline_operations'[i] =
                        [offline_operations[i] EXCEPT !.status = "pending",
                                                      !.retry_count = 0,
                                                      !.error_msg = NULL]
                ELSE offline_operations'[i] = offline_operations[i]
          /\ returned' = Cardinality({i \in OpIds : offline_operations[i].status = "failed"})
          /\ UNCHANGED <<documents, local_identity>>
          /\ Cardinality({c \in Cycles : cycle'[c] # cycle[c]}) <= 1
          /\ \A c \in Cycles :
                cycle'[c] # cycle[c] =>
                    /\ cycle[c].pc = "idle"
                    /\ cycle'[c].pc = "probe"
                    /\ cycle'[c].batch = <<>>]_vars

\* retry_failed_operations has reset the one failed operation and started a
\* cycle, and the 'done' operation next to it is as it was
C12_Witness ==
    /\ returned = 1
    /\ \E c \in Cycles \ {TimerCycle} : cycle[c].pc = "probe"
    /\ \E i, j \in OpIds :
          /\ offline_operations[i].status = "pending"
          /\ offline_operations[i].error_msg = NULL
          /\ offline_operations[i].retry_count = 0
          /\ offline_operations[j].status = "done"

\* C13: the operations of one batch are in creation order (the queue is kept
\* in that order), and the invocation executes them in that order, one at a
\* time: while it executes or records the operation at position `at` it
\* writes no other operation's row, and it moves to position at + 1 only by
\* recording the outcome of the one at `at`.
C13_FifoOrder ==
    [][\A c \in Cycles :
          /\ \A k \in 1..(Len(cycle[c].batch) - 1) :
                cycle[c].batch[k] < cycle[c].batch[k + 1]
          /\ (Steps(c) /\ cycle[c].pc \in ExecStages \cup {"upload_mark", "record"}) =>
                /\ cycle'[c].batch = cycle[c].batch
                /\ IF cycle[c].pc = "record"
                   THEN /\ cycle'[c].at = cycle[c].at + 1
                        /\ offline_operations'[CurrentOp(c)].status \in {"done", "failed"}
                        /\ \A i \in OpIds \ {CurrentOp(c)} :
                              offline_operations'[i] = offline_operations[i]
                   ELSE /\ cycle'[c].at = cycle[c].at
                        /\ offline_operations' = offline_operations]_vars

\* a cycle that has executed a batch of three operations, the oldest first
C13_Witness ==
    \E c \in Cycles :
        /\ cycle[c].pc \in PullStages
        /\ cycle[c].batch = <<1, 2, 3>>
        /\ \A i \in 1..3 : offline_operations[i].status \in {"done", "failed"}

\* the operations the batch query qualifies
Qualifies(i) ==
    /\ offline_operations[i].status = "pending"
    /\ offline_operations[i].retry_count < 5

\* C14: the batch an invocation selects holds at most 20 operations, no
\* operation twice, each 'pending' with retry_count < 5 when it is selected,
\* and the oldest ones when more than 20 qualify; the invocation records an
\* outcome only for the operation of the batch it is at, moving forward.
C14_BatchBound ==
    [][\A c \in Cycles :
          /\ (Steps(c) /\ cycle[c].pc = "select") =>
                LET batch == cycle'[c].batch
                    qualifying == {i \in OpIds : Qualifies(i)}
                IN  /\ Len(batch) <= 20
                    /\ Len(batch) = Min(20, Cardinality(qualifying))
                    /\ \A k \in 1..Len(batch) : batch[k] \in qualifying
                    /\ \A k, m \in 1..Len(batch) : k # m => batch[k] # batch[m]
                    /\ \A i \in qualifying \ SeqToSet(batch) :
                          \A k \in 1..Len(batch) : batch[k] < i
          /\ (Steps(c) /\ cycle[c].pc = "record") =>
                /\ cycle[c].at \in 1..Len(cycle[c].batch)
                /\ cycle'[c].at = cycle[c].at + 1
                /\ cycle'[c].batch = cycle[c].batch
                /\ \A i \in OpIds \ {CurrentOp(c)} :
                      offline_operations'[i] = offline_operations[i]
          /\ (Steps(c) /\ cycle[c].pc # "record") =>
                offline_operations' = offline_operations]_vars

\* an invocation over 22 operations has executed 20 of them, and the newest
\* qualifying ones are still pending
C14_Witness ==
    \E c \in Cycles :
        /\ cycle[c].pc = "pull_since"
        /\ Len(cycle[c].batch) = 20
        /\ Len(offline_operations) > 21
        /\ \E p \in 1..20 : cycle[c].batch[p] # p
        /\ \A k \in 1..20 : offline_operations[cycle[c].batch[k]].status = "done"
        /\ offline_operations[Len(offline_operations)].status = "pending"

\* the `since` a pull would read now: COALESCE(last_sync_at, the epoch), and
\* the epoch when there is no row
SinceOf(identity) == IF identity.row THEN identity.last_sync_at ELSE 0

\* the step in which a pull of cycle c ends on a failed change application
ApplyFails(c) ==
    /\ Steps(c)
    /\ cycle[c].pc = "pull_apply"
    /\ cycle[c].changes # <<>>
    /\ cycle'[c].pc = "idle"

\* the step in which cycle c writes the checkpoint, its whole batch applied
Stamps(c) ==
    /\ Steps(c)
    /\ cycle[c].pc = "pull_apply"
    /\ cycle[c].changes = <<>>

C16_CheckpointAdvances ==
    [][\A c \in Cycles :
          Stamps(c) =>
              /\ SinceOf(local_identity') = now
              /\ SinceOf(local_identity') >= SinceOf(local_identity)]_vars

\* C17: the checkpoint is written by one step only, the last step of a pull
\* that has applied its whole batch; every other step (the document
\* commands, the push stage, retry_failed_operations, store_oauth_token, a
\* failed probe, a cycle without credential) leaves it as it was.
C17_CheckpointSingleWriter ==
    [][(local_identity'.last_sync_at # local_identity.last_sync_at
            \/ SinceOf(local_identity') # SinceOf(local_identity)) =>
          /\ \E c \in Cycles : Stamps(c)
          /\ command' = command
          /\ offline_operations' = offline_operations
          /\ token' = token]_vars

\* a pull has advanced the checkpoint and, no cycle running, the user is
\* logging in again: the token is stored, the identity row not yet written
C17_Witness ==
    /\ local_identity.last_sync_at = 1
    /\ command.name = "store_oauth_token"
    /\ Quiescent
    /\ \E i \in OpIds : offline_operations[i].status = "done"

\* C18: every change the remote recorded at or before the local checkpoint
\* has been applied to the local store at least once.
C18_CheckpointBoundary ==
    \A ch \in remote_log :
        ch.ts <= SinceOf(local_identity) => Times(pulled, ch) > 0

\* the step in which cycle c applies the first of its remaining changes
Applies(c) ==
    /\ Steps(c)
    /\ cycle[c].pc = "pull_apply"
    /\ cycle[c].changes # <<>>

\* status, is_synced, needs_upload and object_key of a document row
SyncFields(doc) == <<doc.status, doc.is_synced, doc.needs_upload, doc.object_key>>

\* C19: applying a document_created change is no error (the pull goes on
\* with the next change) and leaves one row for the identifier whose status,
\* is_synced, needs_upload and object_key depend on the change alone, so
\* that they are the same after every application of that change, whether
\* the change comes again in the same pull or in a later one and whatever
\* was done to the document in between; a second application right after
\* the first changes none of the four.
C19_CreatedIdempotent ==
    [][\A c \in Cycles :
          (Applies(c) /\ Head(cycle[c].changes).type = "document_created") =>
              LET ch == Head(cycle[c].changes)
                  again == apply_server_change(documents', ch)
              IN  /\ cycle'[c].pc = "pull_apply"
                  /\ cycle'[c].changes = Tail(cycle[c].changes)
                  /\ documents'[ch.id].row
                  /\ SyncFields(documents'[ch.id]) = <<"synced", TRUE, FALSE, ch.object_key>>
                  /\ SyncFields(again[ch.id]) = SyncFields(documents'[ch.id])
                  /\ \A d \in DocIds \ {ch.id} : /\ documents'[d] = documents[d]
                                                 /\ again[d] = documents[d]]_vars

\* a document_created change has been applied twice to a document the user
\* has renamed, and the document is as the first application left it
C19_Witness ==
    \E ch \in DOMAIN pulled :
        /\ ch.type = "document_created"
        /\ pulled[ch] = 2
        /\ documents[ch.id].local_version = 2
        /\ documents[ch.id].needs_download
        /\ SyncFields(documents[ch.id]) = <<"synced", TRUE, FALSE, ch.object_key>>

\* C20: applying a document_created or document_updated change about X
\* inserts X as 'synced', needs_download, is_synced, not needs_upload when
\* the store has no row X; when it has one, it sets X's object_key to the
\* change's, its status to 'synced', is_synced and not needs_upload, whatever
\* the local state of X (no revision is compared), and leaves X's filename,
\* local_path, local_version and needs_download as they were.
C20_PulledUpsert ==
    [][\A c \in Cycles :
          (Applies(c) /\ Head(cycle[c].changes).type
                            \in {"document_created", "document_updated"}) =>
              LET ch == Head(cycle[c].changes)
                  before == documents[ch.id]
                  after == documents'[ch.id]
              IN  /\ after.row
                  /\ SyncFields(after) = <<"synced", TRUE, FALSE, ch.object_key>>
                  /\ IF before.row
                     THEN /\ after.filename = before.filename
                          /\ after.local_path = before.local_path
                          /\ after.local_version = before.local_version
                          /\ after.needs_download = before.needs_download
                     ELSE after.needs_download]_vars

\* a pulled change has marked synced a document whose local rename was
\* never pushed
C20_Witness ==
    \E ch \in DOMAIN pulled :
        /\ documents[ch.id].filename = "b.txt"
        /\ documents[ch.id].local_version = 2
        /\ documents[ch.id].last_synced_at > 1
        /\ SyncFields(documents[ch.id]) = <<"synced", TRUE, FALSE, ch.object_key>>

\* C21: applying a document_deleted change about an identifier the store has
\* no document for is no error, and afterwards the store holds a record for
\* that identifier with status 'deleted'.
C21_UnknownDeleteRecorded ==
    [][\A c \in Cycles :
          (Applies(c) /\ Head(cycle[c].changes).type = "document_deleted"
                /\ ~documents[Head(cycle[c].changes).id].row) =>
              /\ cycle'[c].pc = "pull_apply"
              /\ documents'[Head(cycle[c].changes).id].row
              /\ documents'[Head(cycle[c].changes).id].status = "deleted"]_vars

\* C22: applying a document_deleted change about a document the store holds
\* is no error and sets its status to 'deleted' whatever its status and
\* flags were; when the status was 'deleted' already, no field of the
\* document changes.  No other document changes either.
C22_DeleteIdempotent ==
    [][\A c \in Cycles :
          (Applies(c) /\ Head(cycle[c].changes).type = "document_deleted"
                /\ documents[Head(cycle[c].changes).id].row) =>
              LET id == Head(cycle[c].changes).id
              IN  /\ cycle'[c].pc = "pull_apply"
                  /\ cycle'[c].changes = Tail(cycle[c].changes)
                  /\ documents'[id].row
                  /\ documents'[id].status = "deleted"
                  /\ documents[id].status = "deleted" => documents'[id] = documents[id]
                  /\ \A d \in DocIds \ {id} : documents'[d] = documents[d]]_vars

\* a document still waiting for its upload that a pulled change, not the
\* user, has marked deleted
C22_Witness ==
    \E d \in DocIds :
        /\ documents[d].status = "deleted"
        /\ documents[d].needs_upload
        /\ ~documents[d].is_synced
        /\ command = NoCommand
        /\ \A i \in OpIds : offline_operations[i].op_type # "delete_document"

\* the probe of cycle c gets no answer in this step
ProbeFails(c) == cycle[c].pc = "probe" /\ cycle'[c].pc = "idle"

\* C23: when the probe fails the cycle ends at once and returns Ok; the
\* step changes no operation, no document and no checkpoint, the remote has
\* received nothing (no push or pull request), and the task is idle again
\* without having entered the push or the pull stage.
C23_ProbeFailureEndsCycle ==
    [][\A c \in Cycles :
          ProbeFails(c) =>
              /\ cycle'[c] = Ended("Ok")
              /\ UNCHANGED <<documents, offline_operations, local_identity,
                             remote_known, remote_log, pulled>>]_vars

\* C23 witness: the timer cycle has returned Ok with an operation still
\* pending and untouched and the checkpoint never stamped (every completed
\* pull stamps it with now > 0): the cycle ended at the probe.
C23_Witness ==
    /\ cycle[TimerCycle] = Ended("Ok")
    /\ local_identity.last_sync_at = 0
    /\ remote_known = {}
    /\ \E i \in OpIds : /\ offline_operations[i].status = "pending"
                        /\ offline_operations[i].retry_count = 0

\* cycle c starts in this step and finds no token in the keychain
StartsWithoutToken(c) == cycle[c].pc = "idle" /\ ~token /\ cycle'[c] # cycle[c]

\* C24: a cycle that starts without a stored token returns Ok at once: the
\* task never reaches the probe, the push or the pull (no request is sent),
\* and the step changes no document, no operation and no checkpoint.
C24_NoCredentialNoOp ==
    [][\A c \in Cycles :
          StartsWithoutToken(c) =>
              /\ cycle'[c] = Ended("Ok")
              /\ UNCHANGED <<documents, offline_operations, local_identity,
                             remote_known, remote_log, pulled>>]_vars

\* C24 witness: no token was ever stored (the identity row that
\* store_oauth_token leaves behind is absent), an operation is pending, and
\* the timer cycle has returned Ok.
C24_Witness ==
    /\ ~token
    /\ ~local_identity.row
    /\ command = NoCommand
    /\ cycle[TimerCycle] = Ended("Ok")
    /\ \E i \in OpIds : offline_operations[i].status = "pending"

\* the stage of run_sync_cycle a task is in: 0 not running, 1 the token
\* lookup and the probe, 2 the push, 3 the pull
Stage(pc) ==
    IF pc = "idle" THEN 0
    ELSE IF pc = "probe" THEN 1
    ELSE IF pc \in PullStages THEN 3
    ELSE 2

\* C25: a cycle passes through its stages in the order probe, push, pull: a
\* task changes stage only to the next one or to the end of the cycle, so
\* the push starts only from a probe that was answered and the pull only
\* from the push; and the pull starts either from an empty batch or in the
\* step that records the outcome of the last operation of the batch.
C25_StageOrder ==
    [][\A c \in Cycles :
          LET s == Stage(cycle[c].pc)
              t == Stage(cycle'[c].pc)
          IN  t # s =>
                /\ t \in {0, s + 1}
                /\ t = 3 =>
                      \/ /\ cycle[c].pc = "select"
                         /\ cycle'[c].batch = <<>>
                      \/ /\ cycle[c].pc = "record"
                         /\ cycle[c].at = Len(cycle[c].batch)
                         /\ offline_operations'[CurrentOp(c)].status \in {"done", "failed"}]_vars

\* C25 witness: the timer cycle is about to send its pull request after a
\* batch of two operations, both executed and recorded
C25_Witness ==
    /\ cycle[TimerCycle].pc = "pull_fetch"
    /\ Len(cycle[TimerCycle].batch) = 2
    /\ cycle[TimerCycle].at = 3
    /\ \A k \in 1..2 : cycle[TimerCycle].batch[k] \in everDone

\* the step is an update_document call that changes document d (the only
\* document write that belongs neither to a cycle nor to a two-write command)
Updates(d) == documents'[d] # documents[d] /\ UNCHANGED <<cycle, command>>

\* C26: the local_version of a stored document never decreases: an
\* update_document call that changes the document adds exactly 1 to it, and
\* every other step (push, pull, delete_document, the other commands)
\* leaves it as it was; a stored document stays stored.
C26_LocalVersionMonotone ==
    [][\A d \in DocIds :
          documents[d].row =>
              /\ documents'[d].row
              /\ documents'[d].local_version =
                    documents[d].local_version + (IF Updates(d) THEN 1 ELSE 0)]_vars

\* C26 witness: a document renamed once (version 2) that a cycle has since
\* marked synced and a deletion has since tombstoned: the version is still 2
C26_Witness ==
    \E d \in DocIds :
        /\ documents[d].row
        /\ documents[d].local_version = 2
        /\ documents[d].filename \in UpdateNames
        /\ documents[d].status = "deleted"
        /\ documents[d].is_synced
        /\ documents[d].last_synced_at > 0

\* the queue after the step is the queue before it, with n rows appended
Enqueues(n) ==
    /\ Len(offline_operations') = Len(offline_operations) + n
    /\ \A i \in OpIds : /\ offline_operations'[i].op_type = offline_operations[i].op_type
                        /\ offline_operations'[i].doc_id = offline_operations[i].doc_id

\* C27: every local mutation of a document enqueues exactly one operation
\* for it: a command step that writes a document either appends the
\* operation itself or belongs to a command whose next write appends it,
\* and that write appends one operation naming the document; no step removes
\* a queued operation or changes the kind or the document of one.
C27_OnePerMutation ==
    [][/\ Enqueues(0) \/ Enqueues(1)
       /\ \A d \in DocIds :
             (documents'[d] # documents[d] /\ UNCHANGED cycle) =>
                 \/ /\ Enqueues(1)
                    /\ offline_operations'[Len(offline_operations')].doc_id = d
                 \/ /\ command'.name \in {"create_document", "delete_document"}
                    /\ command'.id = d
       /\ (command.name \in {"create_document", "delete_document"} /\ command' # command) =>
             /\ Enqueues(1)
             /\ offline_operations'[Len(offline_operations')].doc_id = command.id]_vars

\* C28: at-least-once delivery. With the timer loop running, the token
\* present, and every kind of request eventually answered with success,
\* every operation that is queued 'pending' eventually is 'done', without
\* any manual retry.
C28_EventuallyDone ==
    \A i \in 1..MaxOps :
        (Len(offline_operations) >= i /\ offline_operations[i].status = "pending")
            ~> (Len(offline_operations) >= i /\ offline_operations[i].status = "done")

\* the pc of cycle c changes to `to` in this step
Enters(c, to) == cycle[c].pc # to /\ cycle'[c].pc = to

\* the request cycle c sends in this step is answered with success
Succeeds(c) == cycle'[c].accepted = cycle[c].accepted /\ cycle'[c].result = NULL

\* C29: the steps of one upload are strictly ordered. The byte transfer
\* starts only from an upload-url request that returned an object
\* reference; the apply request starts only from a byte transfer that
\* succeeded, with that reference; the local record is marked only from an
\* apply request that succeeded (the remote then knows the document); and
\* no other step of the push stage writes a document.
C29_UploadOrder ==
    [][\A c \in Cycles :
          /\ Enters(c, "upload_put") =>
                /\ cycle[c].pc = "upload_url"
                /\ Succeeds(c)
                /\ cycle'[c].key \in Keys
          /\ Enters(c, "upload_apply") =>
                /\ cycle[c].pc = "upload_put"
                /\ Succeeds(c)
                /\ cycle'[c].key = cycle[c].key
          /\ Enters(c, "upload_mark") =>
                /\ cycle[c].pc = "upload_apply"
                /\ Succeeds(c)
                /\ cycle'[c].key = cycle[c].key
                /\ offline_operations[CurrentOp(c)].doc_id \in LocalIds =>
                      offline_operations[CurrentOp(c)].doc_id \in remote_known'
          /\ (Steps(c) /\ Stage(cycle[c].pc) = 2 /\ documents' # documents) =>
                /\ cycle[c].pc = "upload_mark"
                /\ cycle[c].key \in Keys
                /\ \A d \in DocIds :
                      documents'[d] # documents[d] =>
                          /\ d = offline_operations[CurrentOp(c)].doc_id
                          /\ documents'[d].object_key = cycle[c].key]_vars

\* C29 witness: a document just marked synced by its upload: the cycle is
\* recording the success, the record carries the object reference and the
\* remote knows the document
C29_Witness ==
    \E c \in Cycles, d \in LocalIds :
        /\ cycle[c].pc = "record"
        /\ cycle[c].result = "Ok"
        /\ cycle[c].key \in Keys
        /\ offline_operations[CurrentOp(c)].op_type = "upload_document"
        /\ offline_operations[CurrentOp(c)].doc_id = d
        /\ documents[d].status = "synced"
        /\ documents[d].object_key = cycle[c].key
        /\ d \in remote_known

\* the step sets the tombstone of document d (delete_document's UPDATE, or
\* a pulled document_deleted)
SoftDeletes(d) ==
    /\ documents[d].row
    /\ documents[d].status # "deleted"
    /\ documents'[d].status = "deleted"

\* C30: a soft-deleted document stays addressable but hidden. The step that
\* sets the tombstone of D keeps the row: get_document(D) then returns D, as
\* it was but with status 'deleted'; get_document returns every tombstoned
\* row; and neither get_documents nor search_documents (whatever the search
\* term) returns a document whose status is 'deleted'.
C30_SoftDeleteHidden ==
    [][\A d \in DocIds :
          /\ SoftDeletes(d) =>
                get_document(documents', d) = [documents[d] EXCEPT !.status = "deleted"]
          /\ (documents'[d].row /\ documents'[d].status = "deleted") =>
                /\ get_document(documents', d).row
                /\ get_document(documents', d) = documents'[d]
                /\ d \notin get_documents(documents')
                /\ \A q \in Queries : d \notin search_documents(documents', q)]_vars

\* C30 witness: delete_document(d1) has returned; get_document still
\* returns d1, tombstoned, while the listing and the search for its filename
\* return only the other stored document
C30_Witness ==
    /\ command = NoCommand
    /\ \E i \in OpIds : /\ offline_operations[i].op_type = "delete_document"
                        /\ offline_operations[i].doc_id = "d1"
    /\ get_document(documents, "d1").row
    /\ get_document(documents, "d1").status = "deleted"
    /\ get_documents(documents) = {"r1"}
    /\ search_documents(documents, documents["d1"].filename) = {}
    /\ search_documents(documents, documents["r1"].filename) = {"r1"}

\* C31: a pull applies its changes one at a time, in the order of the
\* answer: a step of the loop either applies the first remaining change and
\* keeps the rest, in order, for the next steps, or it fails; a step that
\* fails on change k leaves the documents as changes 1..k-1 left them and
\* ends the cycle with the error, the remaining changes dropped unapplied.
C31_PullStopsAtFailure ==
    [][\A c \in Cycles :
          Applies(c) =>
              \/ /\ cycle'[c].pc = "pull_apply"
                 /\ cycle'[c].changes = Tail(cycle[c].changes)
                 /\ documents' = apply_server_change(documents, Head(cycle[c].changes))
              \/ /\ cycle'[c] = Ended(ErrStore)
                 /\ cycle'[c].changes = <<>>
                 /\ UNCHANGED <<documents, offline_operations, pulled>>]_vars

\* C31 witness: no pull has ever completed (the checkpoint row is there and
\* was never stamped), the last one ended with the error of a change; of
\* two recorded changes the earlier one is applied and its effect is in the
\* store, the later one was never applied
C31_Witness ==
    /\ cycle[TimerCycle] = Ended(ErrStore)
    /\ local_identity.row
    /\ local_identity.last_sync_at = 0
    /\ \E a, b \in remote_log :
          /\ a.ts < b.ts
          /\ a.object_key # b.object_key
          /\ Times(pulled, a) = 1
          /\ Times(pulled, b) = 0
          /\ documents[a.id].row
          /\ documents[a.id].object_key = a.object_key

KnownChangeTypes == {"document_created", "document_updated", "document_deleted"}

\* C32: applying a pulled change of an unrecognized kind is no error (the
\* loop goes on with the next change, and the stamp of the checkpoint
\* follows the last one) and writes nothing: no document, no operation, no
\* checkpoint.
C32_UnknownChangeIgnored ==
    [][\A c \in Cycles :
          (Applies(c) /\ Head(cycle[c].changes).type \notin KnownChangeTypes) =>
              /\ cycle'[c].pc = "pull_apply"
              /\ cycle'[c].changes = Tail(cycle[c].changes)
              /\ UNCHANGED <<documents, offline_operations, local_identity>>]_vars

\* C32 witness: a change of an unrecognized kind about a document the store
\* does not hold was pulled, the store still does not hold it, and the pull
\* has ended with the checkpoint stamped at or after the time of the change
C32_Witness ==
    /\ cycle[TimerCycle] = Ended("Ok")
    /\ \E ch \in remote_log :
          /\ ch.type \notin KnownChangeTypes
          /\ Times(pulled, ch) > 0
          /\ ~documents[ch.id].row
          /\ local_identity.last_sync_at >= ch.ts

\* C33: every started cycle terminates, and the timer loop outlives every
\* outcome: whenever the timer task is between two cycles, whatever the
\* last cycle returned, the loop can start the next one, and while a token
\* is stored it does start it (the next cycle reaches its probe).
C33_LoopOutlivesCycles ==
    /\ [](cycle[TimerCycle].pc # "idle" => <>(cycle[TimerCycle].pc = "idle"))
    /\ [](cycle[TimerCycle].pc = "idle" => ENABLED start)
    /\ []((cycle[TimerCycle].pc = "idle" /\ token) =>
            <>(cycle[TimerCycle].pc = "probe" \/ ~token))

\* C33 witness: the loop has started a cycle after a cycle that returned
\* the error of a failed change application
C33_Witness ==
    /\ cycle[TimerCycle].pc = "probe"
    /\ failedSince # -1

\* C34: the checkpoint records only successful pulls: a cycle whose
\* pull-changes request was answered with a non-2xx status, or with a body
\* without a list of changes, leaves the checkpoint as it was.
C34_CheckpointOnlyOnSuccess ==
    [][\A c \in Cycles :
          (Steps(c) /\ cycle[c].pc \in PullStages /\ ~cycle[c].accepted) =>
              local_identity' = local_identity]_vars

RequestStages == {"upload_url", "upload_put", "upload_apply", "delete_apply"}

\* C36: under any interleaving of the timer cycle with on-demand cycles, no
\* cycle sends a request for an operation whose status is 'done', and no
\* step changes the status of an operation that is 'done'.
C36_DoneIsFinal ==
    [][/\ \A c \in Cycles :
             (Steps(c) /\ cycle[c].pc \in RequestStages) =>
                 offline_operations[CurrentOp(c)].status # "done"
       /\ \A i \in OpIds :
             offline_operations[i].status = "done" =>
                 offline_operations'[i].status = "done"]_vars

LacksPrerequisite(c) ==
    LET op == offline_operations[CurrentOp(c)]
    IN  /\ op.op_type = "upload_document"
        /\ \/ op.doc_id = NULL
           \/ ~documents[op.doc_id].row
           \/ documents[op.doc_id].local_path = NULL

\* C38: an upload_document operation without doc_id, without documents row
\* or without local_path fails before any request: its execution goes from
\* the local reads straight to the recording of the error, the remote
\* learns nothing, no request of the cycle is refused; and a cycle that is
\* at one of the three requests of an upload, or at the final UPDATE, is at
\* an operation that lacks none of the three.
C38_FailsBeforeRequest ==
    [][\A c \in Cycles :
          /\ (Steps(c) /\ cycle[c].pc = "exec" /\ LacksPrerequisite(c)) =>
                /\ cycle'[c].pc = "record"
                /\ cycle'[c].result \in {ErrMissingDocId, ErrNotFound, ErrNoLocalPath}
                /\ cycle'[c].accepted = cycle[c].accepted
                /\ UNCHANGED <<remote_known, documents, offline_operations>>
          /\ cycle[c].pc \in {"upload_url", "upload_put", "upload_apply", "upload_mark"} =>
                ~LacksPrerequisite(c)]_vars

\* C38 witness: the cycle has recorded the failure of an upload without
\* doc_id and gone on; no request of the cycle was refused, the remote
\* knows no document
C38_Witness ==
    /\ cycle[TimerCycle].pc \in PullStages
    /\ cycle[TimerCycle].accepted
    /\ remote_known = {}
    /\ \E k \in 1..Len(cycle[TimerCycle].batch) :
          LET op == offline_operations[cycle[TimerCycle].batch[k]]
          IN  /\ op.op_type = "upload_document"
              /\ op.doc_id = NULL
              /\ op.status = "failed"
              /\ op.error_msg = ErrMissingDocId

\* C39: delete_document for an identifier without documents row returns an
\* error and changes nothing: the step that returns the error writes no
\* document and no operation and leaves no command in progress; and the
\* two writes of delete_document are made only for an identifier with a row
\* (the tombstone is set on a stored document, a delete_document operation
\* is queued only by the command that set it).
C39_DeleteUnknownRejected ==
    [][/\ (returned' = DocumentNotFound /\ returned # DocumentNotFound) =>
             /\ \E id \in DocIds : ~documents[id].row
             /\ UNCHANGED <<documents, offline_operations, command, cycle, local_identity>>
       /\ (command'.name = "delete_document" /\ command' # command) =>
             /\ documents[command'.id].row
             /\ documents'[command'.id].row
       /\ \A i \in 1..Len(offline_operations') :
             (i > Len(offline_operations)
                 /\ offline_operations'[i].op_type = "delete_document") =>
                   /\ command.name = "delete_document"
                   /\ offline_operations'[i].doc_id = command.id
                   /\ documents[command.id].row]_vars

\* C39 witness: delete_document has returned the error for an identifier
\* the store does not hold; a document is stored, none is tombstoned, and
\* the queue holds no delete_document operation
C39_Witness ==
    /\ returned = DocumentNotFound
    /\ command = NoCommand
    /\ \E id \in DocIds : ~documents[id].row
    /\ \E id \in DocIds : documents[id].row
    /\ \A id \in DocIds : documents[id].status # "deleted"
    /\ \A i \in OpIds : offline_operations[i].op_type # "delete_document"

====
